---- MODULE Spec2Model ----
(***************************************************************************)
(* A model of the job-listing application: the in-memory job API           *)
(* (features/jobs/api.ts over features/jobs/data.ts), the useAsync hook,   *)
(* the list page (pages/Jobs.tsx) and the detail page                      *)
(* (pages/JobDetail.tsx) with their localStorage-backed state.             *)
(*                                                                         *)
(* Strings whose characters matter (search text, titles, route ids) are    *)
(* sequences of one-character strings; enumerated values (levels, status)  *)
(* are TLA+ strings.                                                       *)
(***************************************************************************)
EXTENDS Integers, Sequences, FiniteSets, TLC

\* ---------------------------------------------------------------------
\* Bounds of the model
\* ---------------------------------------------------------------------

\* Longest search text passed to fetchJobs in FetchSpec.
MaxQLen == 3

\* Most calls of fn in flight at once.
MaxInFlight == 2

\* ---------------------------------------------------------------------
\* Strings
\* ---------------------------------------------------------------------

\* The lower-case form of each upper-case letter.
lowerOf ==
  "A" :> "a" @@ "B" :> "b" @@ "C" :> "c" @@ "D" :> "d" @@ "E" :> "e" @@ "F" :> "f" @@
  "G" :> "g" @@ "H" :> "h" @@ "I" :> "i" @@ "J" :> "j" @@ "K" :> "k" @@ "L" :> "l" @@
  "M" :> "m" @@ "N" :> "n" @@ "O" :> "o" @@ "P" :> "p" @@ "Q" :> "q" @@ "R" :> "r" @@
  "S" :> "s" @@ "T" :> "t" @@ "U" :> "u" @@ "V" :> "v" @@ "W" :> "w" @@ "X" :> "x" @@
  "Y" :> "y" @@ "Z" :> "z"

\* String.prototype.toLowerCase, one character.
toLowerChar(c) == IF c \in DOMAIN lowerOf THEN lowerOf[c] ELSE c

\* String.prototype.toLowerCase.
toLowerCase(s) == [i \in 1..Len(s) |-> toLowerChar(s[i])]

\* White space as String.prototype.trim sees it (of the characters modelled).
IsSpace(c) == c = " "

\* String.prototype.trim: drops leading and trailing white space.
RECURSIVE trimStart(_)
trimStart(s) ==
  IF s = <<>> THEN <<>>
  ELSE IF IsSpace(Head(s)) THEN trimStart(Tail(s)) ELSE s

RECURSIVE trimEnd(_)
trimEnd(s) ==
  IF s = <<>> THEN <<>>
  ELSE IF IsSpace(s[Len(s)]) THEN trimEnd(SubSeq(s, 1, Len(s) - 1)) ELSE s

trim(s) == trimEnd(trimStart(s))

\* String.prototype.includes: q occurs in s at some offset.
RECURSIVE includes(_, _)
includes(s, q) ==
  IF Len(q) > Len(s) THEN FALSE
  ELSE IF SubSeq(s, 1, Len(q)) = q THEN TRUE
  ELSE includes(Tail(s), q)

\* All strings over the characters cs of length at most n.
RECURSIVE StringsUpTo(_, _)
StringsUpTo(cs, n) ==
  IF n = 0 THEN {<<>>}
  ELSE LET shorter == StringsUpTo(cs, n - 1)
       IN shorter \cup {Append(s, c) : s \in shorter, c \in cs}

\* ---------------------------------------------------------------------
\* features/jobs/data.ts
\* ---------------------------------------------------------------------

jobs ==
  <<
    [id |-> 1,
     title |-> <<"F","r","o","n","t","e","n","d"," ","E","n","g","i","n","e","e","r">>,
     company |-> <<"A","c","m","e">>,
     location |-> <<"U","S"," ","R","e","m","o","t","e">>,
     level |-> "mid"],
    [id |-> 2,
     title |-> <<"R","e","a","c","t"," ","D","e","v","e","l","o","p","e","r">>,
     company |-> <<"N","o","v","a">>,
     location |-> <<"R","e","m","o","t","e">>,
     level |-> "senior"],
    [id |-> 3,
     title |-> <<"A","n","g","u","l","a","r"," ","D","e","v","e","l","o","p","e","r">>,
     company |-> <<"C","i","t","y","L","a","b">>,
     location |-> <<"H","y","b","r","i","d">>,
     level |-> "junior"],
    [id |-> 4,
     title |-> <<"F","u","l","l","s","t","a","c","k"," ","E","n","g","i","n","e","e","r">>,
     company |-> <<"O","r","b","i","t">>,
     location |-> <<"U","S"," ","R","e","m","o","t","e">>,
     level |-> "mid"],
    [id |-> 5,
     title |-> <<"F","r","o","n","t","e","n","d"," ","S","o","f","t","w","a","r","e"," ","E","n","g","i","n","e","e","r">>,
     company |-> <<"C","l","o","u","d","i","f","y">>,
     location |-> <<"B","e","r","l","i","n",","," ","D","E">>,
     level |-> "senior"],
    [id |-> 6,
     title |-> <<"J","u","n","i","o","r"," ","F","r","o","n","t","e","n","d"," ","D","e","v","e","l","o","p","e","r">>,
     company |-> <<"B","r","i","g","h","t","L","a","b","s">>,
     location |-> <<"M","i","l","a","n",","," ","I","T">>,
     level |-> "junior"],
    [id |-> 7,
     title |-> <<"R","e","a","c","t"," ","E","n","g","i","n","e","e","r">>,
     company |-> <<"S","c","a","l","e","U","p">>,
     location |-> <<"R","e","m","o","t","e"," ","(","E","U",")">>,
     level |-> "mid"],
    [id |-> 8,
     title |-> <<"U","I"," ","E","n","g","i","n","e","e","r">>,
     company |-> <<"D","e","s","i","g","n","H","u","b">>,
     location |-> <<"A","m","s","t","e","r","d","a","m",","," ","N","L">>,
     level |-> "mid"],
    [id |-> 9,
     title |-> <<"S","e","n","i","o","r"," ","F","r","o","n","t","e","n","d"," ","E","n","g","i","n","e","e","r">>,
     company |-> <<"F","i","n","C","o","r","e">>,
     location |-> <<"L","o","n","d","o","n",","," ","U","K">>,
     level |-> "senior"],
    [id |-> 10,
     title |-> <<"W","e","b"," ","D","e","v","e","l","o","p","e","r">>,
     company |-> <<"N","e","x","t","G","e","n">>,
     location |-> <<"R","e","m","o","t","e">>,
     level |-> "junior"]
  >>

\* The array as the program holds it: a sequence of references to the job
\* objects above, each named by its id.
jobRefs == [i \in 1..Len(jobs) |-> jobs[i].id]

\* The job object a reference names.
Job(ref) == jobs[CHOOSE i \in 1..Len(jobs) : jobs[i].id = ref]

\* ---------------------------------------------------------------------
\* State
\* ---------------------------------------------------------------------

VARIABLES
  seed,       \* api.ts: the array imported from data.ts (job references)
  fQuery,     \* a direct fetchJobs call: its query argument
  fSignal,    \* ... its signal: "none" (not passed), "live" or "aborted"
  fPc,        \* ... "idle", "sleeping", "returned" or "thrown"
  fResult,    \* ... the value returned, or the exception thrown
  aFn,        \* useAsync: which fn its caller passes
  aMounted,   \* ... whether the component using the hook is mounted
  aPending,   \* ... whether the mount's effect has yet to run
  aDeps,      \* ... the deps of the last render
  aState,     \* ... the hook's state (AsyncState)
  aReqs,      \* ... the calls of fn in flight, oldest first
  aBy,        \* ... whose settlement set aState: "none", "latest" or "stale"
  aStale,     \* ... whether a superseded call has settled since the mount
  url,        \* list page: the search parameters of the location
  qInput,     \* ... the text of the search input
  debouncedQ, \* ... the output of useDebouncedValue(qInput, 300)
  timers,     \* ... the pending timers of useDebouncedValue
  held,       \* ... for how long qInput has not changed, in ms, up to delayMs
  pendingWrite, \* ... the effect of a changed debouncedQ, not yet run
  lastTyped,  \* ... the text the user's last keystroke left in the input
  sinceFire,  \* ... what the page did to q since the debounce timer last fired
  page,       \* per tab: the page mounted, "none", "list" or "detail"
  route,      \* the detail page's route parameter id
  saved,      \* per tab: the in-memory savedJobs map
  notes,      \* per tab: the in-memory jobNotes map
  dirty,      \* per tab: the keys whose write effect has yet to run
  storage,    \* localStorage: per key, null or the stored text
  lastWriter, \* the tab whose write effect wrote savedJobs last (0: none)
  tOrig,      \* toggleSaved called directly: the map the calls started from
  tArg,       \* the argument of the last call, as the call left it
  tState,     \* the result of the last call
  tIds        \* the ids of the calls made, in order

fetchVars == <<fQuery, fSignal, fPc, fResult>>

asyncVars == <<aFn, aMounted, aPending, aDeps, aState, aReqs, aBy, aStale>>

listVars == <<url, qInput, debouncedQ, timers, held, pendingWrite, lastTyped, sinceFire>>

storeVars == <<page, route, saved, notes, dirty, storage, lastWriter>>

toggleVars == <<tOrig, tArg, tState, tIds>>

vars == <<seed, toggleVars, fetchVars, asyncVars, listVars, storeVars>>

\* What each part of the model leaves alone.
notFetch == <<seed, toggleVars, asyncVars, listVars, storeVars>>

notAsync == <<seed, toggleVars, fetchVars, listVars, storeVars>>

\* ---------------------------------------------------------------------
\* Values, and the parts of the state a specification does not use
\* ---------------------------------------------------------------------

\* A nullable value: null, or the value v.
Null == <<>>

Some(v) == <<v>>

\* The browser tabs showing the application, and the keys they store under.
Tabs == {1, 2}

StorageKeys == {"savedJobs", "jobNotes"}

\* An object with numeric keys (Record<number, ...>) is a function from the
\* keys it has. {} is the empty one.
EmptyObject == <<>>

\* The search parameters (URLSearchParams) are a function from the keys
\* present to their values: the value of q is a sequence of characters, the
\* values of level and saved are strings.
NoParams == <<>>

\* AsyncState<T>, before the first effect run.
Idle == [status |-> "idle", data |-> Null, error |-> Null]

\* No direct call of fetchJobs is made (the specifications about other parts).
FetchUnused == fQuery = <<>> /\ fSignal = "none" /\ fPc = "idle" /\ fResult = Null

\* The hook is not in use (the specifications about other parts).
AsyncUnused ==
  /\ aFn = "other"
  /\ aMounted = FALSE
  /\ aPending = FALSE
  /\ aDeps = <<>>
  /\ aState = Idle
  /\ aReqs = <<>>
  /\ aBy = "none"
  /\ aStale = FALSE

\* The list page is not in use (the specifications about other parts).
ListUnused ==
  /\ url = NoParams
  /\ qInput = <<>>
  /\ debouncedQ = <<>>
  /\ timers = {}
  /\ held = 0
  /\ pendingWrite = Null
  /\ lastTyped = Null
  /\ sinceFire = Null

\* toggleSaved is not called directly (the specifications about other parts).
ToggleUnused ==
  /\ tOrig = EmptyObject
  /\ tArg = EmptyObject
  /\ tState = EmptyObject
  /\ tIds = <<>>

\* No page is mounted and nothing is stored (the specifications about other
\* parts).
StoreUnused ==
  /\ page = [t \in Tabs |-> "none"]
  /\ route = <<>>
  /\ saved = [t \in Tabs |-> EmptyObject]
  /\ notes = [t \in Tabs |-> EmptyObject]
  /\ dirty = [t \in Tabs |-> {}]
  /\ storage = [k \in StorageKeys |-> Null]
  /\ lastWriter = 0

\* ---------------------------------------------------------------------
\* features/jobs/api.ts
\* ---------------------------------------------------------------------

\* The value of an absent optional parameter or property.
Undefined == "undefined"

\* JobLevel (types.ts) and the level values a query can carry.
JobLevels == {"junior", "mid", "senior"}

\* new DOMException("Aborted", "AbortError")
AbortError == [exception |-> "DOMException", name |-> "AbortError"]

\* matches with the location left out of the search.
matchesNoLocation(job, query) ==
  LET hasQ == "q" \in DOMAIN query
      q == IF hasQ THEN toLowerCase(trim(query.q)) ELSE <<>>
      level == IF "level" \in DOMAIN query THEN query.level ELSE Undefined
      qOk == \/ ~hasQ
             \/ q = <<>>
             \/ includes(toLowerCase(job.title), q)
             \/ includes(toLowerCase(job.company), q)
      levelOk == IF level = Undefined \/ level = "" \/ level = "all"
                 THEN TRUE
                 ELSE job.level = level
  IN qOk /\ levelOk

\* matches(job, query): query is a record that may lack q, level or both.
matches(job, query) ==
  LET hasQ == "q" \in DOMAIN query
      q == IF hasQ THEN toLowerCase(trim(query.q)) ELSE <<>>
      level == IF "level" \in DOMAIN query THEN query.level ELSE Undefined
      qOk == \/ ~hasQ
             \/ q = <<>>
             \/ includes(toLowerCase(job.title), q)
             \/ includes(toLowerCase(job.company), q)
             \/ includes(toLowerCase(job.location), q)
      levelOk == IF level = Undefined \/ level = "" \/ level = "all"
                 THEN TRUE
                 ELSE job.level = level
  IN qOk /\ levelOk

\* Array.prototype.filter as fetchJobs uses it: a new array, source order.
filterJobs(arr, query) == SelectSeq(arr, LAMBDA j : matches(Job(j), query))

\* fetchJobs without its check of signal.aborted.
fetchJobsNoAbortCheck(arr, query, aborted) ==
  [ok |-> TRUE, value |-> Some(SelectSeq(arr, LAMBDA j : matches(Job(j), query)))]

\* fetchJobs after its sleep: throws when the signal is aborted, else filters.
\* The outcome is [ok |-> TRUE, value |-> Some(..)] or [ok |-> FALSE, error |-> ..].
fetchJobs(arr, query, aborted) ==
  IF aborted
  THEN [ok |-> FALSE, error |-> AbortError]
  ELSE [ok |-> TRUE, value |-> Some(filterJobs(arr, query))]

\* JavaScript numbers as the pages produce them: a finite integer, or NaN.
Num(n) == [num |-> n]

NaN == [nan |-> TRUE]

\* Number.isFinite
isFinite(x) == "num" \in DOMAIN x

\* Strict equality (===) of two numbers: NaN equals nothing, itself included.
StrictEquals(a, b) == isFinite(a) /\ isFinite(b) /\ a.num = b.num

\* Object.is on two numbers: NaN is NaN.
ObjectIs(a, b) == a = b

\* seed.find((j) => j.id === id) ?? null
findJob(arr, id) ==
  LET hit(i) == StrictEquals(Num(Job(arr[i]).id), id)
  IN IF \E i \in 1..Len(arr) : hit(i)
     THEN Some(arr[CHOOSE i \in 1..Len(arr) :
                     hit(i) /\ \A k \in 1..(i - 1) : ~hit(k)])
     ELSE Null

\* A fetchJobById that rejects when no job has the id.
fetchJobByIdNotFound(arr, id, aborted) ==
  IF aborted
  THEN [ok |-> FALSE, error |-> AbortError]
  ELSE IF findJob(arr, id) = Null
  THEN [ok |-> FALSE, error |-> [exception |-> "Error", name |-> "Error"]]
  ELSE [ok |-> TRUE, value |-> findJob(arr, id)]

\* fetchJobById after its sleep.
fetchJobById(arr, id, aborted) ==
  IF aborted
  THEN [ok |-> FALSE, error |-> AbortError]
  ELSE [ok |-> TRUE, value |-> findJob(arr, id)]

\* ---------------------------------------------------------------------
\* features/jobs/hooks/useAsync.ts
\* ---------------------------------------------------------------------

\* AsyncState<T>
Loading == [status |-> "loading", data |-> Null, error |-> Null]

Success(data) == [status |-> "success", data |-> data, error |-> Null]

Failed(e) == [status |-> "error", data |-> Null, error |-> Some(e)]

\* Values a rejected promise can carry: an Error, a DOMException, or a
\* value that is no Error at all.
PlainError == [exception |-> "Error", name |-> "Error"]

OtherDomException == [exception |-> "DOMException", name |-> "NotFoundError"]

ThrownString == [exception |-> "none", name |-> "string"]

\* err instanceof Error (a DOMException is one)
instanceofError(err) == err.exception \in {"Error", "DOMException"}

\* new Error("Unknown error")
UnknownError == [exception |-> "Error", name |-> "Error", message |-> "Unknown error"]

\* React's comparison of an effect's deps with those of the previous
\* render: Object.is, item by item.
areHookInputsEqual(prev, next) ==
  \A i \in 1..Len(prev) : ObjectIs(prev[i], next[i])

\* A call of fn in flight: its argument (the deps it was made for), whether
\* its signal is aborted, whether its controller is the one abortRef.current
\* holds (the latest call's), and whether the instance that made it is
\* unmounted.
Call(deps) == [arg |-> deps, aborted |-> FALSE, latest |-> TRUE, orphan |-> FALSE]

\* controller.abort() on the controller abortRef.current holds, which is also
\* the controller the last effect run's cleanup closes over. A call that has
\* settled is no longer in reqs, and aborting its controller changes nothing.
\* An abort that reaches no call.
abortControllerNoop(reqs) == reqs

abortController(reqs) ==
  [i \in 1..Len(reqs) |->
     IF reqs[i].latest /\ ~reqs[i].orphan
     THEN [reqs[i] EXCEPT !.aborted = TRUE]
     ELSE reqs[i]]

\* The effect's cleanup: () => controller.abort()
effectCleanup(reqs) == abortController(reqs)

\* An effect body that aborts the controller it has just made current.
effectCallsAbortNew(reqs, deps) ==
  Append([i \in 1..Len(reqs) |-> [reqs[i] EXCEPT !.latest = FALSE]],
         [Call(deps) EXCEPT !.aborted = TRUE])

\* The effect body up to the call of fn: abort the previous controller, make
\* a new one the current one, call fn with its signal.
effectCalls(reqs, deps) ==
  Append([i \in 1..Len(reqs) |-> [abortController(reqs)[i] EXCEPT !.latest = FALSE]],
         Call(deps))

\* Whether the handlers call setState for outcome out: the catch handler
\* returns early on an AbortError.
callsSetState(out) ==
  out.ok \/ ~(out.error.exception = "DOMException" /\ out.error.name = "AbortError")

\* Handlers that store whatever was thrown.
onSettledRaw(cur, out) ==
  IF out.ok THEN Success(out.value)
  ELSE IF out.error.exception = "DOMException" /\ out.error.name = "AbortError"
       THEN cur
       ELSE Failed(out.error)

\* The .then / .catch handlers: the state after a call of fn settled with
\* outcome out, the state being cur.
onSettled(cur, out) ==
  IF out.ok THEN Success(out.value)
  ELSE IF out.error.exception = "DOMException" /\ out.error.name = "AbortError"
       THEN cur
       ELSE Failed(IF instanceofError(out.error) THEN out.error ELSE UnknownError)

\* The fn the pages pass, and one that never consults its signal.
PageFns == {"fetchJobs", "fetchJobById"}

Fns == PageFns \cup {"other"}

\* How a call of fn can settle. The list page passes
\* (signal) => fetchJobs({q, level}, signal) with deps [q, level], the detail
\* page (signal) => fetchJobById(jobId, signal) with deps [jobId]; any other
\* fn may resolve (here with its deps' first item) or reject with anything,
\* whatever its signal says.
Outcomes(fn, req) ==
  CASE fn = "fetchJobs" ->
         {fetchJobs(seed, [q |-> req.arg[1], level |-> req.arg[2]], req.aborted)}
    [] fn = "fetchJobById" ->
         {fetchJobById(seed, req.arg[1], req.aborted)}
    [] OTHER ->
         {[ok |-> TRUE, value |-> Some(req.arg[1])]}
           \cup {[ok |-> FALSE, error |-> e] :
                   e \in {AbortError, PlainError, OtherDomException, ThrownString}}

\* The page fns sleep for a fixed time, so their calls settle in the order
\* they were made; another fn's calls settle in any order.
CanSettle(fn, i) == fn \notin PageFns \/ i = 1

RemoveAt(s, i) == SubSeq(s, 1, i - 1) \o SubSeq(s, i + 1, Len(s))

\* The deps tried for each fn.
DepsOf(fn) ==
  CASE fn = "fetchJobs" ->
         {<<q, l>> : q \in {<<>>, <<"r","e">>, <<"u","i">>}, l \in {"all", "mid"}}
    [] fn = "fetchJobById" ->
         {<<Num(1)>>, <<Num(2)>>, <<Num(11)>>, <<NaN>>}
    [] OTHER ->
         {<<"d1">>, <<"d2">>, <<"d3">>}

\* A component using the hook has rendered once: useState's initial value,
\* the effect not yet run.
AsyncInit ==
  /\ seed = jobRefs
  /\ ToggleUnused
  /\ FetchUnused
  /\ aFn \in Fns
  /\ aMounted = TRUE
  /\ aPending = TRUE
  /\ aDeps \in DepsOf(aFn)
  /\ aState = Idle
  /\ aReqs = <<>>
  /\ aBy = "none"
  /\ aStale = FALSE
  /\ ListUnused
  /\ StoreUnused

\* The effect runs after the first render.
AsyncRunEffect ==
  /\ aMounted /\ aPending
  /\ aReqs' = effectCalls(aReqs, aDeps)
  /\ aState' = Loading
  /\ aPending' = FALSE
  /\ UNCHANGED <<aFn, aMounted, aDeps, aBy, aStale>>
  /\ UNCHANGED notAsync

\* A render with deps d: when they differ from the previous render's, the
\* cleanup of the last effect run and then the effect run. A settlement that
\* falls between that render's commit and its effects is not modelled apart:
\* its setState and the effect's are applied by one later render, which shows
\* the effect's 'loading'.
AsyncRender(d) ==
  /\ aMounted /\ ~aPending
  /\ aDeps' = d
  /\ IF areHookInputsEqual(aDeps, d)
     THEN UNCHANGED <<aReqs, aState, aBy>>
     ELSE /\ Len(aReqs) < MaxInFlight
          /\ aReqs' = effectCalls(effectCleanup(aReqs), d)
          /\ aState' = Loading
          /\ aBy' = "none"
  /\ UNCHANGED <<aFn, aMounted, aPending, aStale>>
  /\ UNCHANGED notAsync

\* Call i settles with outcome out and its handler runs: the sleep's timer,
\* the check of the signal and the handler are one task and its microtasks.
\* setState of an unmounted instance changes nothing; otherwise the component
\* renders again with the same deps, and the effect runs again only if React
\* finds them changed.
AsyncSettle(i, out) ==
  /\ ~aPending
  /\ i \in 1..Len(aReqs)
  /\ CanSettle(aFn, i)
  /\ out \in Outcomes(aFn, aReqs[i])
  /\ aStale' = (aStale \/ (aMounted /\ ~aReqs[i].latest /\ ~aReqs[i].orphan))
  /\ IF aReqs[i].orphan \/ ~callsSetState(out)
     THEN /\ aReqs' = RemoveAt(aReqs, i)
          /\ UNCHANGED <<aState, aBy>>
     ELSE IF areHookInputsEqual(aDeps, aDeps)
     THEN /\ aReqs' = RemoveAt(aReqs, i)
          /\ aState' = onSettled(aState, out)
          /\ aBy' = IF aReqs[i].latest THEN "latest" ELSE "stale"
     ELSE \* the render the new state causes finds the deps changed
          /\ aReqs' = effectCalls(effectCleanup(RemoveAt(aReqs, i)), aDeps)
          /\ aState' = Loading
          /\ aBy' = "none"
  /\ UNCHANGED <<aFn, aMounted, aPending, aDeps>>
  /\ UNCHANGED notAsync

\* The component unmounts: the cleanup runs, the instance's state is gone.
AsyncUnmount ==
  /\ aMounted /\ ~aPending
  /\ aMounted' = FALSE
  /\ aReqs' = [i \in 1..Len(aReqs) |->
                 [effectCleanup(aReqs)[i] EXCEPT !.orphan = TRUE]]
  /\ UNCHANGED <<aFn, aPending, aDeps, aState, aBy, aStale>>
  /\ UNCHANGED notAsync

\* The component mounts again: a new instance of the hook.
AsyncMount(d) ==
  /\ ~aMounted
  /\ Len(aReqs) < MaxInFlight
  /\ aMounted' = TRUE
  /\ aPending' = TRUE
  /\ aDeps' = d
  /\ aState' = Idle
  /\ aBy' = "none"
  /\ aStale' = FALSE
  /\ UNCHANGED <<aFn, aReqs>>
  /\ UNCHANGED notAsync

AsyncNext ==
  \/ AsyncRunEffect
  \/ \E d \in DepsOf(aFn) : AsyncRender(d)
  \/ \E i \in 1..Len(aReqs) : \E out \in Outcomes(aFn, aReqs[i]) : AsyncSettle(i, out)
  \/ AsyncUnmount
  \/ \E d \in DepsOf(aFn) : AsyncMount(d)

AsyncSpec == AsyncInit /\ [][AsyncNext]_vars

\* The event loop runs the pending effect, and the timers and promise
\* callbacks of the calls in flight.
AsyncFairSpec ==
  /\ AsyncSpec
  /\ WF_vars(AsyncRunEffect)
  /\ WF_vars(\E i \in 1..Len(aReqs) : \E out \in Outcomes(aFn, aReqs[i]) : AsyncSettle(i, out))

\* ---------------------------------------------------------------------
\* localStorage-backed state: useLocalStorageState (pages/Jobs.tsx,
\* pages/JobDetail.tsx) and the savedJobs helpers
\* ---------------------------------------------------------------------

\* The values a saved map can hold once parsed from storage: booleans, and
\* numbers (Num, defined with the api).
Bool(b) == [bool |-> b]

True == Bool(TRUE)

\* JavaScript's truthiness of such a value.
truthy(v) ==
  IF "bool" \in DOMAIN v THEN v.bool
  ELSE IF "num" \in DOMAIN v THEN v.num /= 0
  ELSE FALSE

\* isSaved of the shared helpers: Boolean(state[id])
isSavedBoolean(state, id) == id \in DOMAIN state /\ truthy(state[id])

\* isSaved(state, id): state[id] === true
isSaved(state, id) == id \in DOMAIN state /\ state[id] = True

\* toggleSaved(state, id): a copy with id deleted if truthy, else set to true.
toggleSaved(state, id) ==
  IF id \in DOMAIN state /\ truthy(state[id])
  THEN [k \in DOMAIN state \ {id} |-> state[k]]
  ELSE [k \in DOMAIN state \cup {id} |-> IF k = id THEN True ELSE state[k]]

\* A setNotes updater that forgets the notes of the other jobs.
setNoteOnly(prev, id, next) == [k \in {id} |-> next]

\* { ...prev, [jobId]: next }
setNote(prev, id, next) ==
  [k \in DOMAIN prev \cup {id} |-> IF k = id THEN next ELSE prev[k]]

\* The keys of an object in the order JavaScript enumerates them: integer
\* keys ascending (the keys modelled are non-negative integers).
RECURSIVE ownKeys(_)
ownKeys(S) ==
  IF S = {} THEN <<>>
  ELSE LET least == CHOOSE k \in S : \A o \in S : k <= o
       IN <<least>> \o ownKeys(S \ {least})

\* Object.keys(saved).length
savedCount(state) == Len(ownKeys(DOMAIN state))

\* A stored text: the empty string, the JSON text of an object (its members
\* in the order written), or a text JSON.parse rejects.
EmptyText == [kind |-> "empty"]

GarbageText == [kind |-> "garbage"]

\* JSON.stringify of an object: its members, key then value, in ownKeys order.
stringify(obj) ==
  [kind |-> "object",
   members |-> [i \in 1..Len(ownKeys(DOMAIN obj)) |->
                  <<ownKeys(DOMAIN obj)[i], obj[ownKeys(DOMAIN obj)[i]]>>]]

\* Whether JSON.parse throws on a text.
parseThrows(text) == text.kind /= "object"

\* JSON.parse of the JSON text of an object: member by member, a later member
\* of the same key replacing an earlier one.
parse(text) ==
  LET ms == text.members
      keys == {ms[i][1] : i \in 1..Len(ms)}
  IN [k \in keys |->
        ms[CHOOSE i \in 1..Len(ms) :
             ms[i][1] = k /\ \A n \in (i + 1)..Len(ms) : ms[n][1] /= k][2]]

\* useLocalStorageState's initial value: the parsed item, or initialValue
\* when the item is missing, empty or unparseable.
readInitial(item, initialValue) ==
  IF item = Null THEN initialValue
  ELSE IF item[1] = EmptyText THEN initialValue
  ELSE IF parseThrows(item[1]) THEN initialValue
  ELSE parse(item[1])

\* A write effect that leaves storage alone when the map is empty.
writeEffectSkipEmpty(store, key, value) ==
  IF DOMAIN value = {} THEN store
  ELSE [store EXCEPT ![key] = Some(stringify(value))]

\* A write effect that merges the value into what is stored.
writeEffectMerging(store, key, value) ==
  [store EXCEPT ![key] =
     Some(stringify([k \in DOMAIN readInitial(store[key], EmptyObject) \cup DOMAIN value |->
                       IF k \in DOMAIN value THEN value[k]
                       ELSE readInitial(store[key], EmptyObject)[k]]))]

\* useLocalStorageState's effect: localStorage.setItem(key, JSON.stringify(value))
writeEffect(store, key, value) == [store EXCEPT ![key] = Some(stringify(value))]

\* ---------------------------------------------------------------------
\* pages/Jobs.tsx: the list page with the search box, the level buttons and
\* the Saved toggle
\* ---------------------------------------------------------------------

\* useDebouncedValue(qInput, 300)
delayMs == 300

\* The step by which the model's clock advances.
TickMs == delayMs \div 2

\* params.get(key) ?? fallback
getOr(params, key, fallback) ==
  IF key \in DOMAIN params THEN params[key] ELSE fallback

\* const q = params.get("q") ?? ""
qOf(params) == getOr(params, "q", <<>>)

\* const level = params.get("level") ?? "all"
levelOf(params) == getOr(params, "level", "all")

\* const savedOnly = params.get("saved") === "1"
savedOnlyOf(params) == "saved" \in DOMAIN params /\ params["saved"] = "1"

\* !value, for a value of parameter key
isEmptyValue(key, value) == IF key = "q" THEN value = <<>> ELSE value = ""

\* updateParam's `next`: a copy of params with key deleted or set.
updateParam(params, key, value) ==
  IF isEmptyValue(key, value)
  THEN [k \in DOMAIN params \ {key} |-> params[k]]
  ELSE [k \in DOMAIN params \cup {key} |-> IF k = key THEN value ELSE params[k]]

\* setParams(next, { replace: true }): the location's search becomes next,
\* whatever it is at the time.
setParams(current, next) == next

\* A level button's onClick: updateParam("level", value) and then
\* updateParam("saved", ""), both copying the params of the render whose
\* handler this is.
onLevelClick(current, params, value) ==
  LET afterLevel == setParams(current, updateParam(params, "level", value))
  IN setParams(afterLevel, updateParam(params, "saved", ""))

\* The Saved button's onClick.
onSavedClick(current, params) ==
  setParams(current,
            updateParam(params, "saved", IF savedOnlyOf(params) THEN "" ELSE "1"))

\* The effect of useDebouncedValue: its cleanup clears the timer the previous
\* run set, its body sets one for the current value.
clearTimeout(ts) == {tm \in ts : ~tm.last}

setTimeout(ts, value) ==
  {[tm EXCEPT !.last = FALSE] : tm \in ts}
    \cup {[value |-> value, left |-> delayMs, last |-> TRUE]}

\* The effect of useDebouncedValue without its cleanup.
debounceEffectNoClear(ts, value) == setTimeout(ts, value)

debounceEffect(ts, value) == setTimeout(clearTimeout(ts), value)

\* The state of qInput after a render whose q is q, the previous render's
\* being prevQ: the effect setQInput(q) runs when q changed.
syncInputEffect(input, prevQ, q) == IF ObjectIs(prevQ, q) THEN input ELSE q

\* visibleJobs
visibleJobs(state, savedOnly, savedMap) ==
  IF state.status /= "success" THEN <<>>
  ELSE IF savedOnly
       THEN SelectSeq(state.data[1], LAMBDA j : isSaved(savedMap, Job(j).id))
       ELSE state.data[1]

\* The texts the user can leave in the search input: empty, blank, matching
\* some jobs, with trailing white space, matching one job.
TypedTexts == {<<>>, <<" ">>, <<"u">>, <<"u", " ">>, <<"u", "i">>}

\* The locations the list page is opened at.
InitialUrls ==
  {NoParams,
   [q |-> <<" ", "u">>],
   [level |-> "mid"],
   [saved |-> "1"],
   [q |-> <<"u">>, level |-> "senior", saved |-> "1"]}

\* The deps of the list page's useAsync for the location u.
\* Deps that take the saved filter in.
listDepsWithSaved(u) == <<qOf(u), levelOf(u), savedOnlyOf(u)>>

listDeps(u) == <<qOf(u), levelOf(u)>>

\* The list page's first render at location u in tab 1: every useState
\* initial value, no effect run yet.
ListFirstRender(u, store) ==
  /\ url = u
  /\ qInput = qOf(u)
  /\ debouncedQ = qOf(u)
  /\ timers = {}
  /\ held = 0
  /\ pendingWrite = Null
  /\ lastTyped = Null
  /\ sinceFire = Null
  /\ aFn = "fetchJobs"
  /\ aMounted = TRUE
  /\ aPending = TRUE
  /\ aDeps = listDeps(u)
  /\ aState = Idle
  /\ aReqs = <<>>
  /\ aBy = "none"
  /\ aStale = FALSE
  /\ page = [t \in Tabs |-> IF t = 1 THEN "list" ELSE "none"]
  /\ route = <<>>
  /\ saved = [t \in Tabs |->
                IF t = 1 THEN readInitial(store["savedJobs"], EmptyObject)
                ELSE EmptyObject]
  /\ notes = [t \in Tabs |-> EmptyObject]
  /\ dirty = [t \in Tabs |-> {}]
  /\ storage = store
  /\ lastWriter = 0

Init ==
  /\ seed = jobRefs
  /\ ToggleUnused
  /\ FetchUnused
  /\ \E u \in InitialUrls :
       ListFirstRender(u, [k \in StorageKeys |->
                             IF k = "savedJobs"
                             THEN Some(stringify(1 :> True @@ 8 :> True))
                             ELSE Null])

ListMounted == page[1] = "list" /\ aMounted /\ ~aPending

\* The effects of the list page's first render, in the order the hooks are
\* called: the debounce timer, setQInput(q) (no change), the savedJobs write,
\* the write of q and the first call of fetchJobs.
ListMountEffects ==
  /\ page[1] = "list" /\ aMounted /\ aPending
  /\ timers' = debounceEffect(timers, qInput)
  /\ storage' = writeEffect(storage, "savedJobs", saved[1])
  /\ lastWriter' = 1
  /\ url' = setParams(url, updateParam(url, "q", trim(debouncedQ)))
  /\ aReqs' = effectCalls(aReqs, aDeps)
  /\ aState' = Loading
  /\ aPending' = FALSE
  /\ UNCHANGED <<qInput, debouncedQ, held, pendingWrite, lastTyped, sinceFire>>
  /\ UNCHANGED <<aFn, aMounted, aDeps, aBy, aStale>>
  /\ UNCHANGED <<page, route, saved, notes, dirty>>
  /\ UNCHANGED <<seed, toggleVars, fetchVars>>

\* The input's onChange: setQInput(e.target.value), then the render's effect
\* restarts the debounce timer.
Type(v) ==
  /\ ListMounted
  /\ v /= qInput
  /\ qInput' = v
  /\ timers' = debounceEffect(timers, v)
  /\ held' = 0
  /\ lastTyped' = Some(v)
  /\ UNCHANGED <<url, debouncedQ, pendingWrite, sinceFire>>
  /\ UNCHANGED <<seed, toggleVars, fetchVars, asyncVars, storeVars>>

\* Whether an effect of an earlier render has yet to run.
EffectsPending ==
  \/ aPending
  \/ pendingWrite /= Null
  \/ ~areHookInputsEqual(aDeps, listDeps(url))

\* Time passes. Renders and effects take no time on this scale, and a timer
\* that is due fires before more time passes.
Tick ==
  /\ ListMounted
  /\ ~EffectsPending
  /\ \A tm \in timers : tm.left > 0
  /\ timers' = {[tm EXCEPT !.left = IF tm.left > TickMs THEN tm.left - TickMs ELSE 0] :
                  tm \in timers}
  /\ held' = IF held + TickMs > delayMs THEN delayMs ELSE held + TickMs
  /\ UNCHANGED <<url, qInput, debouncedQ, pendingWrite, lastTyped, sinceFire>>
  /\ UNCHANGED <<seed, toggleVars, fetchVars, asyncVars, storeVars>>

\* A debounce timer fires: setDebounced(value) and the render it causes. When
\* debouncedQ changed, the effect that writes q is pending, closing over the
\* render's params.
FireTimer(tm) ==
  /\ ListMounted
  /\ tm \in timers /\ tm.left = 0
  /\ timers' = timers \ {tm}
  /\ debouncedQ' = tm.value
  /\ IF tm.value /= debouncedQ
     THEN /\ pendingWrite' = Some([params |-> url, value |-> tm.value])
          /\ sinceFire' = Some([writes |-> 0, fetches |-> 0])
     ELSE UNCHANGED <<pendingWrite, sinceFire>>
  /\ UNCHANGED <<url, qInput, held, lastTyped>>
  /\ UNCHANGED <<seed, toggleVars, fetchVars, asyncVars, storeVars>>

\* One more, up to 2.
Bump(n) == IF n < 2 THEN n + 1 ELSE 2

\* The pending effect runs: updateParam("q", debouncedQ.trim()).
FlushUrlWrite ==
  /\ ListMounted
  /\ pendingWrite /= Null
  /\ url' = setParams(url, updateParam(pendingWrite[1].params, "q",
                                       trim(pendingWrite[1].value)))
  /\ pendingWrite' = Null
  /\ sinceFire' = IF sinceFire /= Null /\ qOf(url') /= qOf(url)
                  THEN Some([sinceFire[1] EXCEPT !.writes = Bump(@)])
                  ELSE sinceFire
  /\ UNCHANGED <<qInput, debouncedQ, timers, held, lastTyped>>
  /\ UNCHANGED <<seed, toggleVars, fetchVars, asyncVars, storeVars>>

\* The effects of the render that a change of q or level in the location
\* causes: setQInput(q) when q changed, with the render and the debounce
\* effect that follow it, and the useAsync effect.
FlushUrlEffects ==
  /\ ListMounted
  /\ pendingWrite = Null
  /\ ~areHookInputsEqual(aDeps, listDeps(url))
  /\ Len(aReqs) < MaxInFlight
  /\ qInput' = syncInputEffect(qInput, aDeps[1], qOf(url))
  /\ IF qInput' /= qInput
     THEN timers' = debounceEffect(timers, qInput') /\ held' = 0
     ELSE UNCHANGED <<timers, held>>
  /\ aDeps' = listDeps(url)
  /\ aReqs' = effectCalls(effectCleanup(aReqs), listDeps(url))
  /\ aState' = Loading
  /\ aBy' = "none"
  /\ sinceFire' = IF sinceFire /= Null
                  THEN Some([sinceFire[1] EXCEPT !.fetches = Bump(@)])
                  ELSE sinceFire
  /\ UNCHANGED <<url, debouncedQ, pendingWrite, lastTyped>>
  /\ UNCHANGED <<aFn, aMounted, aPending, aStale>>
  /\ UNCHANGED <<seed, toggleVars, fetchVars, storeVars>>

\* A click on the level button of value.
ClickLevel(value) ==
  /\ ListMounted
  /\ url' = onLevelClick(url, url, value)
  /\ UNCHANGED <<qInput, debouncedQ, timers, held, pendingWrite, lastTyped, sinceFire>>
  /\ UNCHANGED <<seed, toggleVars, fetchVars, asyncVars, storeVars>>

\* A click on the Saved button.
ClickSaved ==
  /\ ListMounted
  /\ url' = onSavedClick(url, url)
  /\ UNCHANGED <<qInput, debouncedQ, timers, held, pendingWrite, lastTyped, sinceFire>>
  /\ UNCHANGED <<seed, toggleVars, fetchVars, asyncVars, storeVars>>

Next ==
  \/ ListMountEffects
  \/ \E v \in TypedTexts : Type(v)
  \/ Tick
  \/ \E tm \in timers : FireTimer(tm)
  \/ FlushUrlWrite
  \/ FlushUrlEffects
  \/ \E value \in JobLevels \cup {"all"} : ClickLevel(value)
  \/ ClickSaved
  \/ \E i \in 1..Len(aReqs) : \E out \in Outcomes(aFn, aReqs[i]) : AsyncSettle(i, out)

Spec == Init /\ [][Next]_vars

\* ---------------------------------------------------------------------
\* pages/JobDetail.tsx, and the navigation between the two pages
\* ---------------------------------------------------------------------

\* The decimal digits.
digitOf ==
  "0" :> 0 @@ "1" :> 1 @@ "2" :> 2 @@ "3" :> 3 @@ "4" :> 4 @@
  "5" :> 5 @@ "6" :> 6 @@ "7" :> 7 @@ "8" :> 8 @@ "9" :> 9

RECURSIVE decimal(_)
decimal(s) ==
  IF s = <<>> THEN 0
  ELSE 10 * decimal(SubSeq(s, 1, Len(s) - 1)) + digitOf[s[Len(s)]]

\* Number(id) for a route parameter made of letters and digits: the empty
\* string is 0, a string of digits its decimal value, anything else NaN.
toNumber(s) ==
  IF \A i \in 1..Len(s) : s[i] \in DOMAIN digitOf THEN Num(decimal(s)) ELSE NaN

\* The route parameters the detail page is opened with: two jobs, a job id
\* with a leading zero, a number that is no job's id, and a non-number.
RouteIds == {<<"1">>, <<"2">>, <<"0", "1">>, <<"1", "1">>, <<"a">>}

\* The jobs whose Save button the user presses on the list page.
ToggleIds == {1, 8}

\* The texts the user leaves in the notes box.
NoteTexts == {<<>>, <<"o", "k">>}

\* The locations the list page is returned to: the link's /jobs, and
\* locations carrying a parameter.
ReturnUrls == {NoParams, [saved |-> "1"], [sort |-> "seniority"]}

\* The deps of the detail page's useAsync for route parameter r.
detailDeps(r) == <<toNumber(r)>>

DetailMounted == page[1] = "detail" /\ aMounted /\ ~aPending

\* The page's state is as its effects left it: no write effect is pending.
Clean(t) == dirty[t] = {}

\* What the write effects of tab t store.
flushWrites(store, t) ==
  [k \in StorageKeys |->
     IF k \in dirty[t]
     THEN writeEffect(store, k, IF k = "savedJobs" THEN saved[t] ELSE notes[t])[k]
     ELSE store[k]]

\* The write effects of the render a setSaved or setNotes caused.
FlushWrites(t) ==
  /\ page[t] /= "none"
  /\ dirty[t] /= {}
  /\ storage' = flushWrites(storage, t)
  /\ dirty' = [dirty EXCEPT ![t] = {}]
  /\ lastWriter' = IF "savedJobs" \in dirty[t] THEN t ELSE lastWriter
  /\ UNCHANGED <<page, route, saved, notes>>
  /\ UNCHANGED <<seed, toggleVars, fetchVars, asyncVars, listVars>>

\* A card's Save button on the list page: setSaved(prev => toggleSaved(prev, id)).
ToggleSavedList(id) ==
  /\ ListMounted /\ Clean(1)
  /\ \E i \in 1..Len(visibleJobs(aState, savedOnlyOf(url), saved[1])) :
       Job(visibleJobs(aState, savedOnlyOf(url), saved[1])[i]).id = id
  /\ saved' = [saved EXCEPT ![1] = toggleSaved(@, id)]
  /\ dirty' = [dirty EXCEPT ![1] = @ \cup {"savedJobs"}]
  /\ UNCHANGED <<page, route, notes, storage, lastWriter>>
  /\ UNCHANGED <<seed, toggleVars, fetchVars, asyncVars, listVars>>

\* A link or the address bar takes tab 1 from the list page to /jobs/r: the
\* list page unmounts (its timer is cleared, its request aborted) and the
\* detail page renders for the first time.
GoDetail(r) ==
  /\ ListMounted /\ Clean(1)
  /\ Len(aReqs) < MaxInFlight
  /\ pendingWrite = Null
  /\ page' = [page EXCEPT ![1] = "detail"]
  /\ route' = r
  /\ timers' = clearTimeout(timers)
  /\ aReqs' = [i \in 1..Len(aReqs) |->
                 [effectCleanup(aReqs)[i] EXCEPT !.orphan = TRUE]]
  /\ aFn' = "fetchJobById"
  /\ aPending' = TRUE
  /\ aDeps' = detailDeps(r)
  /\ aState' = Idle
  /\ aBy' = "none"
  /\ aStale' = FALSE
  /\ saved' = [saved EXCEPT ![1] = readInitial(storage["savedJobs"], EmptyObject)]
  /\ notes' = [notes EXCEPT ![1] = readInitial(storage["jobNotes"], EmptyObject)]
  /\ UNCHANGED <<aMounted, dirty, storage, lastWriter>>
  /\ UNCHANGED <<url, qInput, debouncedQ, held, pendingWrite, lastTyped, sinceFire>>
  /\ UNCHANGED <<seed, toggleVars, fetchVars>>

\* The effects of the detail page's first render: the call of fetchJobById
\* and the two write effects.
DetailMountEffects ==
  /\ page[1] = "detail" /\ aMounted /\ aPending
  /\ aReqs' = effectCalls(aReqs, aDeps)
  /\ aState' = Loading
  /\ aPending' = FALSE
  /\ storage' = writeEffect(writeEffect(storage, "savedJobs", saved[1]),
                            "jobNotes", notes[1])
  /\ lastWriter' = 1
  /\ UNCHANGED <<aFn, aMounted, aDeps, aBy, aStale>>
  /\ UNCHANGED <<page, route, saved, notes, dirty>>
  /\ UNCHANGED <<seed, toggleVars, fetchVars, listVars>>

\* The detail page stays mounted while the route parameter changes (a jump
\* in the history): a render with new deps.
DetailRouteChange(r) ==
  /\ DetailMounted /\ Clean(1)
  /\ r /= route
  /\ route' = r
  /\ aDeps' = detailDeps(r)
  /\ IF areHookInputsEqual(aDeps, detailDeps(r))
     THEN UNCHANGED <<aReqs, aState, aBy>>
     ELSE /\ Len(aReqs) < MaxInFlight
          /\ aReqs' = effectCalls(effectCleanup(aReqs), detailDeps(r))
          /\ aState' = Loading
          /\ aBy' = "none"
  /\ UNCHANGED <<aFn, aMounted, aPending, aStale>>
  /\ UNCHANGED <<page, saved, notes, dirty, storage, lastWriter>>
  /\ UNCHANGED <<seed, toggleVars, fetchVars, listVars>>

\* onToggleSaved
ToggleSavedDetail ==
  /\ DetailMounted /\ Clean(1)
  /\ IF ~isFinite(toNumber(route))
     THEN UNCHANGED <<saved, dirty>>
     ELSE /\ saved' = [saved EXCEPT ![1] = toggleSaved(@, toNumber(route).num)]
          /\ dirty' = [dirty EXCEPT ![1] = @ \cup {"savedJobs"}]
  /\ UNCHANGED <<page, route, notes, storage, lastWriter>>
  /\ UNCHANGED <<seed, toggleVars, fetchVars, asyncVars, listVars>>

\* onChangeNotes(next), from the notes box the page shows for a job found.
ChangeNotes(next) ==
  /\ DetailMounted /\ Clean(1)
  /\ aState.status = "success" /\ aState.data /= Null
  /\ IF ~isFinite(toNumber(route))
     THEN UNCHANGED <<notes, dirty>>
     ELSE /\ notes' = [notes EXCEPT ![1] = setNote(@, toNumber(route).num, next)]
          /\ dirty' = [dirty EXCEPT ![1] =
                         IF notes'[1] /= notes[1] THEN @ \cup {"jobNotes"} ELSE @]
  /\ UNCHANGED <<page, route, saved, storage, lastWriter>>
  /\ UNCHANGED <<seed, toggleVars, fetchVars, asyncVars, listVars>>

\* Tab 1 goes from the detail page to the list page at location u: the detail
\* page unmounts (its request aborted) and the list page renders for the
\* first time.
GoList(u) ==
  /\ DetailMounted /\ Clean(1)
  /\ Len(aReqs) < MaxInFlight
  /\ page' = [page EXCEPT ![1] = "list"]
  /\ route' = <<>>
  /\ url' = u
  /\ qInput' = qOf(u)
  /\ debouncedQ' = qOf(u)
  /\ timers' = {}
  /\ held' = 0
  /\ pendingWrite' = Null
  /\ lastTyped' = Null
  /\ sinceFire' = Null
  /\ aReqs' = [i \in 1..Len(aReqs) |->
                 [effectCleanup(aReqs)[i] EXCEPT !.orphan = TRUE]]
  /\ aFn' = "fetchJobs"
  /\ aPending' = TRUE
  /\ aDeps' = listDeps(u)
  /\ aState' = Idle
  /\ aBy' = "none"
  /\ aStale' = FALSE
  /\ saved' = [saved EXCEPT ![1] = readInitial(storage["savedJobs"], EmptyObject)]
  /\ notes' = [notes EXCEPT ![1] = EmptyObject]
  /\ UNCHANGED <<aMounted, dirty, storage, lastWriter>>
  /\ UNCHANGED <<seed, toggleVars, fetchVars>>

\* The application opened on the list page of a device with nothing stored.
AppInit ==
  /\ seed = jobRefs
  /\ ToggleUnused
  /\ FetchUnused
  /\ ListFirstRender(NoParams, [k \in StorageKeys |-> Null])

AppNext ==
  \/ ListMountEffects
  \/ DetailMountEffects
  \/ \E i \in 1..Len(aReqs) : \E out \in Outcomes(aFn, aReqs[i]) : AsyncSettle(i, out)
  \/ ClickSaved
  \/ \E id \in ToggleIds : ToggleSavedList(id)
  \/ \E r \in RouteIds : GoDetail(r)
  \/ \E r \in RouteIds : DetailRouteChange(r)
  \/ ToggleSavedDetail
  \/ \E next \in NoteTexts : ChangeNotes(next)
  \/ FlushWrites(1)
  \/ \E u \in ReturnUrls : GoList(u)

AppSpec == AppInit /\ [][AppNext]_vars

\* The list page with its search box, its Saved filter and its cards' Save
\* buttons, opened at /jobs on a device with nothing stored; the user types
\* one search text and clears it again.
SavedViewTexts == {<<>>, <<"u">>}

SavedViewInit ==
  /\ seed = jobRefs
  /\ ToggleUnused
  /\ FetchUnused
  /\ ListFirstRender(NoParams, [k \in StorageKeys |-> Null])

SavedViewNext ==
  \/ ListMountEffects
  \/ \E v \in SavedViewTexts : Type(v)
  \/ Tick
  \/ \E tm \in timers : FireTimer(tm)
  \/ FlushUrlWrite
  \/ FlushUrlEffects
  \/ ClickSaved
  \/ \E id \in ToggleIds : ToggleSavedList(id)
  \/ FlushWrites(1)
  \/ \E i \in 1..Len(aReqs) : \E out \in Outcomes(aFn, aReqs[i]) : AsyncSettle(i, out)

SavedViewSpec == SavedViewInit /\ [][SavedViewNext]_vars

\* The detail page's first render for route parameter r.
DetailFirstRender(r, store) ==
  /\ aFn = "fetchJobById"
  /\ aMounted = TRUE
  /\ aPending = TRUE
  /\ aDeps = detailDeps(r)
  /\ aState = Idle
  /\ aReqs = <<>>
  /\ aBy = "none"
  /\ aStale = FALSE
  /\ ListUnused
  /\ page = [t \in Tabs |-> IF t = 1 THEN "detail" ELSE "none"]
  /\ route = r
  /\ saved = [t \in Tabs |-> IF t = 1 THEN readInitial(store["savedJobs"], EmptyObject)
                                       ELSE EmptyObject]
  /\ notes = [t \in Tabs |-> IF t = 1 THEN readInitial(store["jobNotes"], EmptyObject)
                                       ELSE EmptyObject]
  /\ dirty = [t \in Tabs |-> {}]
  /\ storage = store
  /\ lastWriter = 0

\* The application opened on a detail page of a device with nothing stored.
DetailInit ==
  /\ seed = jobRefs
  /\ ToggleUnused
  /\ FetchUnused
  /\ \E r \in RouteIds : DetailFirstRender(r, [k \in StorageKeys |-> Null])

DetailNext ==
  \/ DetailMountEffects
  \/ \E i \in 1..Len(aReqs) : \E out \in Outcomes(aFn, aReqs[i]) : AsyncSettle(i, out)
  \/ \E r \in RouteIds : DetailRouteChange(r)
  \/ ToggleSavedDetail
  \/ \E next \in NoteTexts : ChangeNotes(next)
  \/ FlushWrites(1)

DetailSpec == DetailInit /\ [][DetailNext]_vars

\* The event loop runs what is pending: effects, write effects, and the
\* timers and promise callbacks of the calls in flight.
DetailFairSpec ==
  /\ DetailSpec
  /\ WF_vars(DetailMountEffects)
  /\ WF_vars(FlushWrites(1))
  /\ WF_vars(\E i \in 1..Len(aReqs) : \E out \in Outcomes(aFn, aReqs[i]) : AsyncSettle(i, out))

\* ---------------------------------------------------------------------
\* toggleSaved called directly
\* ---------------------------------------------------------------------

\* The number of calls made in a row.
MaxToggles == 3

\* The ids tried.
SavedIds == {1, 2}

\* The values tried: true, false, and a truthy and a falsy number.
SavedValues == {True, Bool(FALSE), Num(1), Num(0)}

\* The maps tried: any keys among the ids, any of the values.
SavedMaps == UNION {[K -> SavedValues] : K \in SUBSET SavedIds}

ToggleInit ==
  /\ seed = jobRefs
  /\ FetchUnused
  /\ AsyncUnused
  /\ ListUnused
  /\ StoreUnused
  /\ tOrig \in SavedMaps
  /\ tArg = tOrig
  /\ tState = tOrig
  /\ tIds = <<>>

\* next = toggleSaved(state, id), state being the result of the call before:
\* the function works on a copy, so its argument stays as it was.
ToggleCall(id) ==
  /\ Len(tIds) < MaxToggles
  /\ tArg' = tState
  /\ tState' = toggleSaved(tState, id)
  /\ tIds' = Append(tIds, id)
  /\ UNCHANGED <<tOrig, seed, fetchVars, asyncVars, listVars, storeVars>>

ToggleNext == \E id \in SavedIds \cup {3} : ToggleCall(id)

ToggleSpec == ToggleInit /\ [][ToggleNext]_vars

\* ---------------------------------------------------------------------
\* Two tabs, each with one instance of useLocalStorageState("savedJobs")
\* ---------------------------------------------------------------------

\* A tab opens the list page: the hook's initial state is read from storage,
\* and its write effect is pending.
TabOpen(t) ==
  /\ page[t] = "none"
  /\ page' = [page EXCEPT ![t] = "list"]
  /\ saved' = [saved EXCEPT ![t] = readInitial(storage["savedJobs"], EmptyObject)]
  /\ dirty' = [dirty EXCEPT ![t] = {"savedJobs"}]
  /\ UNCHANGED <<route, notes, storage, lastWriter>>
  /\ UNCHANGED <<seed, toggleVars, fetchVars, asyncVars, listVars>>

\* A card's Save button in tab t.
TabToggle(t, id) ==
  /\ page[t] = "list" /\ Clean(t)
  /\ saved' = [saved EXCEPT ![t] = toggleSaved(@, id)]
  /\ dirty' = [dirty EXCEPT ![t] = {"savedJobs"}]
  /\ UNCHANGED <<page, route, notes, storage, lastWriter>>
  /\ UNCHANGED <<seed, toggleVars, fetchVars, asyncVars, listVars>>

\* The tab is closed.
TabClose(t) ==
  /\ page[t] = "list" /\ Clean(t)
  /\ page' = [page EXCEPT ![t] = "none"]
  /\ saved' = [saved EXCEPT ![t] = EmptyObject]
  /\ UNCHANGED <<route, notes, dirty, storage, lastWriter>>
  /\ UNCHANGED <<seed, toggleVars, fetchVars, asyncVars, listVars>>

TabsInit ==
  /\ seed = jobRefs
  /\ ToggleUnused
  /\ FetchUnused
  /\ AsyncUnused
  /\ ListUnused
  /\ StoreUnused

TabsNext ==
  \/ \E t \in Tabs : TabOpen(t)
  \/ \E t \in Tabs : \E id \in ToggleIds : TabToggle(t, id)
  \/ \E t \in Tabs : FlushWrites(t)
  \/ \E t \in Tabs : TabClose(t)

TabsSpec == TabsInit /\ [][TabsNext]_vars

\* ---------------------------------------------------------------------------
\* useLocalStorageState on a device whose storage may fail: getItem and
\* setItem may throw (storage disabled, private mode, quota exceeded).
\* ---------------------------------------------------------------------------

\* The outcome of an expression: the value it returned, or that it threw.
Returned(v) == [ok |-> TRUE, value |-> v]

Thrown == [ok |-> FALSE]

\* localStorage.getItem(key)
getItem(store, key, throws) ==
  IF throws THEN Thrown ELSE Returned(store[key])

\* The shared hook's useState initializer: getItem is called outside the try,
\* only JSON.parse is guarded.
useLocalStorageInitial(store, key, initialValue, readThrows) ==
  LET raw == getItem(store, key, readThrows)
  IN IF ~raw.ok THEN Thrown
     ELSE Returned(readInitial(raw.value, initialValue))

\* The shared hook's effect: setItem is not guarded.
useLocalStorageWrite(store, key, value, writeThrows) ==
  IF writeThrows THEN Thrown ELSE Returned(writeEffect(store, key, value))

\* An initializer whose catch does not cover JSON.parse.
useStateInitialParseUncaught(store, key, initialValue, readThrows) ==
  LET raw == getItem(store, key, readThrows)
  IN IF ~raw.ok THEN Returned(initialValue)
     ELSE IF raw.value /= Null /\ raw.value[1] = GarbageText THEN Thrown
     ELSE Returned(readInitial(raw.value, initialValue))

\* The pages' useState initializer: getItem, the test of raw and JSON.parse
\* are all inside the try, whose catch returns initialValue.
useStateInitial(store, key, initialValue, readThrows) ==
  LET raw == getItem(store, key, readThrows)
  IN IF ~raw.ok THEN Returned(initialValue)
     ELSE Returned(readInitial(raw.value, initialValue))

\* The pages' write effect: setItem inside a try whose catch ignores the error.
tryWriteEffect(store, key, value, writeThrows) ==
  IF writeThrows THEN store ELSE writeEffect(store, key, value)

\* The hooks a page mounts: the list page keeps savedJobs, the detail page
\* savedJobs and jobNotes.
HookKeys(p) == IF p = "list" THEN {"savedJobs"} ELSE StorageKeys

HookPages == {"list", "detail"}

\* The tab that opens the pages (the other tab stays closed).
HookTabs == {1}

\* What a device may hold under a key before the page is opened.
StoredItems(k) ==
  {Null, Some(EmptyText), Some(GarbageText),
   Some(stringify(IF k = "savedJobs" THEN (8 :> True) ELSE (1 :> <<"o", "k">>)))}

HookValue(t, k) == IF k = "savedJobs" THEN saved[t] ELSE notes[t]

\* Tab t renders page p for the first time; the reads of the keys in failing
\* throw. A throw that leaves an initializer leaves the render: the tree is
\* unmounted.
HookMount(t, p, failing) ==
  LET init == [k \in StorageKeys |->
                 useStateInitial(storage, k, EmptyObject, k \in failing)]
  IN /\ page[t] = "none"
     /\ IF \A k \in HookKeys(p) : init[k].ok
        THEN /\ page' = [page EXCEPT ![t] = p]
             /\ saved' = [saved EXCEPT ![t] = init["savedJobs"].value]
             /\ notes' = [notes EXCEPT ![t] =
                            IF p = "detail" THEN init["jobNotes"].value ELSE @]
             /\ dirty' = [dirty EXCEPT ![t] = HookKeys(p)]
        ELSE /\ page' = [page EXCEPT ![t] = "crashed"]
             /\ UNCHANGED <<saved, notes, dirty>>
     /\ UNCHANGED <<route, storage, lastWriter>>
     /\ UNCHANGED <<seed, toggleVars, fetchVars, asyncVars, listVars>>

\* The write effects of tab t's last render; the writes of the keys in
\* failing throw.
HookFlush(t, failing) ==
  /\ page[t] \in HookPages
  /\ dirty[t] /= {}
  /\ storage' = [k \in StorageKeys |->
                   IF k \in dirty[t]
                   THEN tryWriteEffect(storage, k, HookValue(t, k), k \in failing)[k]
                   ELSE storage[k]]
  /\ dirty' = [dirty EXCEPT ![t] = {}]
  /\ lastWriter' = IF "savedJobs" \in dirty[t] \ failing THEN t ELSE lastWriter
  /\ UNCHANGED <<page, route, saved, notes>>
  /\ UNCHANGED <<seed, toggleVars, fetchVars, asyncVars, listVars>>

\* A Save button in tab t.
HookToggle(t, id) ==
  /\ page[t] \in HookPages /\ Clean(t)
  /\ saved' = [saved EXCEPT ![t] = toggleSaved(@, id)]
  /\ dirty' = [dirty EXCEPT ![t] = {"savedJobs"}]
  /\ UNCHANGED <<page, route, notes, storage, lastWriter>>
  /\ UNCHANGED <<seed, toggleVars, fetchVars, asyncVars, listVars>>

\* The notes textarea of job 1's detail page in tab t.
HookSetNote(t, next) ==
  /\ page[t] = "detail" /\ Clean(t)
  /\ notes' = [notes EXCEPT ![t] = setNote(@, 1, next)]
  /\ notes'[t] /= notes[t]
  /\ dirty' = [dirty EXCEPT ![t] = {"jobNotes"}]
  /\ UNCHANGED <<page, route, saved, storage, lastWriter>>
  /\ UNCHANGED <<seed, toggleVars, fetchVars, asyncVars, listVars>>

\* The tab is closed.
HookUnmount(t) ==
  /\ page[t] \in HookPages /\ Clean(t)
  /\ page' = [page EXCEPT ![t] = "none"]
  /\ saved' = [saved EXCEPT ![t] = EmptyObject]
  /\ notes' = [notes EXCEPT ![t] = EmptyObject]
  /\ UNCHANGED <<route, dirty, storage, lastWriter>>
  /\ UNCHANGED <<seed, toggleVars, fetchVars, asyncVars, listVars>>

StorageInit ==
  /\ seed = jobRefs
  /\ ToggleUnused
  /\ FetchUnused
  /\ AsyncUnused
  /\ ListUnused
  /\ page = [t \in Tabs |-> "none"]
  /\ route = <<>>
  /\ saved = [t \in Tabs |-> EmptyObject]
  /\ notes = [t \in Tabs |-> EmptyObject]
  /\ dirty = [t \in Tabs |-> {}]
  /\ storage \in {s \in [StorageKeys -> UNION {StoredItems(k) : k \in StorageKeys}] :
                    \A k \in StorageKeys : s[k] \in StoredItems(k)}
  /\ lastWriter = 0

StorageNext ==
  \/ \E t \in HookTabs : \E p \in HookPages : \E failing \in SUBSET StorageKeys :
       HookMount(t, p, failing)
  \/ \E t \in HookTabs : \E failing \in SUBSET StorageKeys : HookFlush(t, failing)
  \/ \E t \in HookTabs : \E id \in ToggleIds : HookToggle(t, id)
  \/ \E t \in HookTabs : \E next \in NoteTexts : HookSetNote(t, next)
  \/ \E t \in HookTabs : HookUnmount(t)

StorageSpec == StorageInit /\ [][StorageNext]_vars

\* ---------------------------------------------------------------------
\* A direct call of fetchJobs (as useJobs makes it), for its contract
\* ---------------------------------------------------------------------

\* Characters of the search texts tried.
QueryChars == {" ", "r", "e", "R"}

\* The query arguments tried: q and level each present or absent.
Queries ==
  LET qs == StringsUpTo(QueryChars, MaxQLen)
      ls == JobLevels \cup {"all", ""}
  IN {[q |-> q, level |-> l] : q \in qs, l \in ls}
       \cup {[q |-> q] : q \in qs}
       \cup {[level |-> l] : l \in ls}
       \cup {<<>>}

FetchInit ==
  /\ seed = jobRefs
  /\ ToggleUnused
  /\ fQuery \in Queries
  /\ fSignal \in {"none", "live"}
  /\ fPc = "idle"
  /\ fResult = Null
  /\ AsyncUnused
  /\ ListUnused
  /\ StoreUnused

\* fetchJobs(query, signal) is called and reaches `await sleep(500)`.
FetchCall ==
  /\ fPc = "idle"
  /\ fPc' = "sleeping"
  /\ UNCHANGED <<fQuery, fSignal, fResult>>
  /\ UNCHANGED notFetch

\* The caller aborts the controller of the signal it passed.
FetchAbort ==
  /\ fSignal = "live"
  /\ fSignal' = "aborted"
  /\ UNCHANGED <<fQuery, fPc, fResult>>
  /\ UNCHANGED notFetch

\* The sleep's timer fires and the function runs to its end.
FetchResume ==
  /\ fPc = "sleeping"
  /\ LET out == fetchJobs(seed, fQuery, fSignal = "aborted")
     IN /\ fPc' = IF out.ok THEN "returned" ELSE "thrown"
        /\ fResult' = IF out.ok THEN out.value ELSE Some(out.error)
  /\ UNCHANGED <<fQuery, fSignal>>
  /\ UNCHANGED notFetch

FetchNext == FetchCall \/ FetchAbort \/ FetchResume

FetchSpec == FetchInit /\ [][FetchNext]_vars

\* =====================================================================
\* Claims
\* =====================================================================

\* The result a call of fn made for deps d returns when nothing aborts it.
ResultFor(fn, d) ==
  (CHOOSE out \in Outcomes(fn, Call(d)) : out.ok).value

\* C1: with fetchJobs or fetchJobById as fn, a settled state (success or
\* error) of the mounted hook was always set by the most recently started
\* call, and a success holds that call's result, the result for the current
\* deps: no superseded call's result is ever committed.
C1_StaleResultNeverCommitted ==
  (aFn \in PageFns /\ aMounted /\ aState.status \in {"success", "error"})
    => /\ aBy = "latest"
       /\ aState = Success(ResultFor(aFn, aDeps))

\* C1 witness: the hook shows a success after a superseded call has settled.
C1_Witness ==
  /\ aFn \in PageFns /\ aMounted
  /\ aState.status = "success"
  /\ aStale

\* C2: for every fn, also one that never consults its signal, a settled
\* state of the mounted hook was set by the most recently started call: the
\* settlement of a superseded call never changes the state.
C2_SupersededSettlementIgnored ==
  (aMounted /\ aState.status \in {"success", "error"}) => aBy = "latest"

\* C4: on the list page with the Saved toggle, a click on a level button
\* leaves the location with level equal to the clicked value and without
\* saved, whatever the parameters were.
C4_LevelClickSetsLevel ==
  [][\A value \in JobLevels \cup {"all"} :
       ClickLevel(value) =>
         /\ "level" \in DOMAIN url' /\ url'["level"] = value
         /\ "saved" \notin DOMAIN url']_vars

\* The call the useAsync effect made in this step, if it made one.
NewCall == IF aReqs' /= <<>> /\ aReqs'[Len(aReqs')] \notin {aReqs[i] : i \in 1..Len(aReqs)}
           THEN Some(aReqs'[Len(aReqs')])
           ELSE Null

\* C8: at most one debounce timer is pending; debouncedQ only ever changes to
\* the value qInput has held for delayMs; once mounted, the page writes to q
\* and fetches for q only the trimmed debounced text, never a text of a burst
\* still going on; and after a firing of the timer it changes q at most once
\* and starts at most one fetch.
C8_Debounce ==
  /\ [](Cardinality(timers) <= 1)
  /\ [][debouncedQ' /= debouncedQ => (debouncedQ' = qInput /\ held = delayMs)]_vars
  /\ [][(~aPending /\ qOf(url') /= qOf(url)) => qOf(url') = trim(debouncedQ)]_vars
  /\ [][(~aPending /\ NewCall /= Null) => NewCall[1].arg[1] = trim(debouncedQ)]_vars
  /\ [](sinceFire /= Null => (sinceFire[1].writes <= 1 /\ sinceFire[1].fetches <= 1))

\* C8 witness: after typing, the timer fired for the typed text, and the page
\* wrote q once and fetched once.
C8_Witness ==
  /\ lastTyped /= Null /\ debouncedQ = lastTyped[1]
  /\ sinceFire = Some([writes |-> 1, fetches |-> 1])
  /\ qOf(url) = trim(debouncedQ)

\* Nothing is left to happen on the list page unless the user acts.
Quiescent ==
  /\ ListMounted
  /\ ~EffectsPending
  /\ timers = {}
  /\ aReqs = <<>>

\* C9: once the user has typed and the page has come to rest, q in the
\* location is the trimmed text of the last keystroke and the list shows the
\* jobs matching it: no keystroke is lost to the effect that copies q into
\* the input.
C9_UrlConvergesToTyped ==
  (Quiescent /\ lastTyped /= Null) =>
    /\ qOf(url) = trim(lastTyped[1])
    /\ aState = Success(ResultFor("fetchJobs", <<trim(lastTyped[1]), levelOf(url)>>))

\* Substring, stated by offsets: q occurs in s.
OccursIn(q, s) ==
  \E k \in 0..(Len(s) - Len(q)) : \A i \in 1..Len(q) : s[k + i] = q[i]

\* The jobs fetchJobs is to return for fQuery, per the claim's (a) and (b).
C5_Wanted(j) ==
  LET q == IF "q" \in DOMAIN fQuery THEN toLowerCase(trim(fQuery.q)) ELSE <<>>
  IN /\ \/ q = <<>>
        \/ OccursIn(q, toLowerCase(j.title))
        \/ OccursIn(q, toLowerCase(j.company))
        \/ OccursIn(q, toLowerCase(j.location))
     /\ \/ "level" \notin DOMAIN fQuery
        \/ fQuery.level \in {"", "all"}
        \/ fQuery.level = j.level

\* C5: a fetchJobs call whose signal is not aborted returns, and what it
\* returns is exactly the seed jobs wanted for its query, each once and in
\* seed order; the seed array is as data.ts defines it throughout.
C5_FetchJobsContract ==
  /\ seed = jobRefs
  /\ ToggleUnused
  /\ (fPc = "thrown") => (fSignal = "aborted")
  /\ (fPc = "returned") =>
       LET r == fResult[1]
           pos(j) == CHOOSE i \in 1..Len(seed) : seed[i] = j
       IN /\ \A i \in 1..Len(r) :
               \E k \in 1..Len(seed) : seed[k] = r[i] /\ C5_Wanted(Job(seed[k]))
          /\ \A k \in 1..Len(seed) :
               C5_Wanted(Job(seed[k])) => \E i \in 1..Len(r) : r[i] = seed[k]
          /\ \A i \in 1..Len(r) : \A k \in 1..Len(r) :
               i < k => pos(r[i]) < pos(r[k])

\* C5 witness: a call with a search text that needs trimming and lower-casing
\* and a level returned some, not all, of the jobs.
C5_Witness ==
  /\ fPc = "returned"
  /\ fQuery = [q |-> <<"R", "e", " ">>, level |-> "mid"]
  /\ Len(fResult[1]) = 3

\* C3: once the write effects of a page have run, the text stored under
\* savedJobs is the JSON of the page's in-memory saved map and (on the detail
\* page) the text under jobNotes the JSON of its notes map, and a mount that
\* follows reads back exactly those maps.
C3_StoredIsJsonOfMemory ==
  (page[1] /= "none" /\ ~aPending /\ Clean(1)) =>
    /\ storage["savedJobs"] = Some(stringify(saved[1]))
    /\ readInitial(storage["savedJobs"], EmptyObject) = saved[1]
    /\ page[1] = "detail" =>
         /\ storage["jobNotes"] = Some(stringify(notes[1]))
         /\ readInitial(storage["jobNotes"], EmptyObject) = notes[1]

\* A detail page whose saved map and notes map (one note emptied again) were
\* read back from storage after a visit to the list page.
C3_Witness ==
  /\ DetailMounted /\ Clean(1)
  /\ DOMAIN saved[1] = {1, 11}
  /\ DOMAIN notes[1] = {1, 2}
  /\ notes[1][1] = <<>>
  /\ notes[1][2] = <<"o", "k">>
  /\ route = <<"a">>
  /\ storage["savedJobs"] = Some(stringify(saved[1]))
  /\ storage["jobNotes"] = Some(stringify(notes[1]))

\* C6: whenever the list is loaded with an empty q and level "all", the Saved
\* counter (the number of keys of the saved map) is the number of jobs the
\* saved-only view shows.
C6_CountIsShown ==
  (ListMounted /\ aState.status = "success"
     /\ trim(qOf(url)) = <<>> /\ levelOf(url) = "all") =>
    savedCount(saved[1]) = Len(visibleJobs(aState, TRUE, saved[1]))

\* Whether the route parameter r names no job.
NoJob(r) == findJob(seed, toNumber(r)) = Null

\* The calls of the mounted page that were not aborted.
LiveCalls == {i \in 1..Len(aReqs) : ~aReqs[i].orphan /\ ~aReqs[i].aborted}

\* C7: on the detail page of a route parameter that names no job (a number
\* that is no id, or not a number) the status is never "error", a success
\* carries null, at most one request is live and none once the page has its
\* result; and the page does not stay without a result forever.
C7_UnknownJobId ==
  /\ []((page[1] = "detail" /\ NoJob(route)) =>
          /\ aState.status /= "error"
          /\ aState.status = "success" => aState.data = Null
          /\ Cardinality(LiveCalls) <= 1
          /\ aState.status = "success" => LiveCalls = {})
  /\ \A r \in RouteIds :
       NoJob(r) =>
         []<>(~(page[1] = "detail" /\ route = r /\ aState.status \in {"idle", "loading"}))

\* The page of a route parameter that is not a number has its result, null,
\* from its one request, and nothing is in flight.
C7_Witness ==
  /\ DetailMounted
  /\ route = <<"a">>
  /\ toNumber(route) = NaN
  /\ aState = Success(Null)
  /\ aBy = "latest"
  /\ aReqs = <<>>

\* C10: the text stored under savedJobs is the JSON of the whole saved map of
\* the instance whose write effect ran last, whatever the other instance
\* holds; and a mounted instance's map changes only by its own toggles, never
\* by what the other instance stores.
C10_LastWriteWins ==
  /\ [](\A t \in Tabs :
          (lastWriter = t /\ page[t] = "list" /\ Clean(t)) =>
            storage["savedJobs"] = Some(stringify(saved[t])))
  /\ [][\A t \in Tabs :
          (page[t] = "list" /\ page'[t] = "list" /\ saved'[t] /= saved[t]) =>
            /\ \E id \in ToggleIds : saved'[t] = toggleSaved(saved[t], id)
            /\ storage' = storage]_vars

\* Tab 2 wrote last: what is stored is its map, and the job only tab 1 holds
\* is not in storage.
C10_Witness ==
  /\ page = [t \in Tabs |-> "list"]
  /\ Clean(1) /\ Clean(2)
  /\ lastWriter = 2
  /\ saved[1] = (1 :> True)
  /\ saved[2] = (8 :> True)
  /\ storage["savedJobs"] = Some(stringify(saved[2]))

\* The id of the last direct call of toggleSaved.
LastId == tIds[Len(tIds)]

\* Whether every value of a map is true.
AllTrue(state) == \A k \in DOMAIN state : state[k] = True

C12_NotesArePerJob ==
  /\ [][\A next \in NoteTexts :
          (ChangeNotes(next) /\ isFinite(toNumber(route))) =>
            /\ DOMAIN notes'[1] = DOMAIN notes[1] \cup {toNumber(route).num}
            /\ notes'[1][toNumber(route).num] = next
            /\ \A k \in DOMAIN notes[1] \ {toNumber(route).num} :
                 notes'[1][k] = notes[1][k]
            /\ saved' = saved
            /\ storage' = storage]_vars
  /\ [][(FlushWrites(1) /\ dirty[1] = {"jobNotes"}) =>
          /\ storage'["savedJobs"] = storage["savedJobs"]
          /\ storage'["jobNotes"] = Some(stringify(notes[1]))]_vars
  /\ [][((ToggleSavedDetail \/ \E next \in NoteTexts : ChangeNotes(next))
           /\ ~isFinite(toNumber(route))) =>
          UNCHANGED <<saved, notes, storage, dirty>>]_vars

\* Two jobs have their own notes, stored as edited, next to a saved job, on
\* a page whose route id is not a number.
C12_Witness ==
  /\ DetailMounted /\ Clean(1)
  /\ route = <<"a">>
  /\ notes[1] = (1 :> <<"o", "k">> @@ 2 :> <<>>)
  /\ saved[1] = (2 :> True)
  /\ storage["jobNotes"] = Some(stringify(notes[1]))
  /\ storage["savedJobs"] = Some(stringify(saved[1]))

\* The rank of a level, junior first.
levelRank == "junior" :> 0 @@ "mid" :> 1 @@ "senior" :> 2

\* Whether a list of jobs runs by seniority, upwards or downwards.
BySeniority(js) ==
  \/ \A i, j \in 1..Len(js) :
       i < j => levelRank[Job(js[i]).level] <= levelRank[Job(js[j]).level]
  \/ \A i, j \in 1..Len(js) :
       i < j => levelRank[Job(js[i]).level] >= levelRank[Job(js[j]).level]

\* C13: the order of the jobs shown follows the sort selection held in the
\* URL: with sort=seniority the loaded list is shown in order of seniority.
C13_SortFollowsUrl ==
  (ListMounted /\ aState.status = "success"
     /\ "sort" \in DOMAIN url /\ url["sort"] = "seniority") =>
    BySeniority(visibleJobs(aState, savedOnlyOf(url), saved[1]))

\* Whether the location asks for job j: its q (trimmed, whatever the case)
\* occurs in the title, company or location, its level is "all" or j's, and
\* with saved=1 the job is saved.
UrlWants(j) ==
  LET q == toLowerCase(trim(qOf(url)))
  IN /\ \/ q = <<>>
        \/ OccursIn(q, toLowerCase(j.title))
        \/ OccursIn(q, toLowerCase(j.company))
        \/ OccursIn(q, toLowerCase(j.location))
     /\ levelOf(url) \in {"all", j.level}
     /\ savedOnlyOf(url) => isSaved(saved[1], j.id)

\* The jobs the list page shows are exactly the seed jobs the location asks
\* for.
ShownIsWanted ==
  LET shown == visibleJobs(aState, savedOnlyOf(url), saved[1])
  IN \A k \in 1..Len(seed) :
       UrlWants(Job(seed[k])) <=> \E i \in 1..Len(shown) : shown[i] = seed[k]

\* C14 as stated: whenever the list page shows status "success", the jobs it
\* shows are exactly the seed jobs the current location asks for.
C14_ShownIsWhatUrlWants ==
  (page[1] = "list" /\ aMounted /\ aState.status = "success") => ShownIsWanted

\* C14 as amended: whenever the list page shows status "success" and the
\* useAsync effect of the render for the current q and level has run, the
\* jobs it shows are exactly the seed jobs the current location asks for.
C14_ShownOnceEffectRan ==
  (ListMounted /\ aState.status = "success"
     /\ areHookInputsEqual(aDeps, listDeps(url))) => ShownIsWanted

\* After a search was typed and an earlier request was aborted, the list
\* shows some of the jobs, those the location's q asks for.
C14_Witness ==
  /\ ListMounted /\ aState.status = "success"
  /\ areHookInputsEqual(aDeps, listDeps(url))
  /\ lastTyped /= Null
  /\ qOf(url) = <<"u">>
  /\ aStale
  /\ Len(visibleJobs(aState, savedOnlyOf(url), saved[1])) \in 1..9

\* C15: error is non-null exactly when the status is "error", and data is
\* null in every status but "success"; a mounted hook is "idle" only until
\* its first effect run and never again; "success" and "error" are entered
\* only from "loading"; and every change of deps leaves the state "loading"
\* with data null.
C15_StateShapeAndTransitions ==
  /\ []((aState.error /= Null) <=> (aState.status = "error"))
  /\ [](aState.status \in {"idle", "loading", "error"} => aState.data = Null)
  /\ []((aMounted /\ aState.status = "idle") => aPending)
  /\ [][(aMounted /\ aMounted' /\ aState.status /= "idle") =>
          aState'.status /= "idle"]_vars
  /\ [][(aMounted /\ aMounted' /\ aState'.status /= aState.status
           /\ aState'.status \in {"success", "error"}) =>
          aState.status = "loading"]_vars
  /\ [][(aMounted /\ aMounted' /\ ~areHookInputsEqual(aDeps, aDeps')) =>
          aState' = Loading]_vars

\* The error an outcome carries is an AbortError DOMException.
IsAbortError(out) ==
  ~out.ok /\ out.error.exception = "DOMException" /\ out.error.name = "AbortError"

\* C16: a call that rejects with an AbortError DOMException leaves the state
\* as it is; any other rejection of the current call sets status "error"
\* with an Error: the rejection's value if it is an Error, and otherwise an
\* Error with the message "Unknown error".
C16_AbortIsNoError ==
  [][\A i \in 1..Len(aReqs) : \A out \in Outcomes(aFn, aReqs[i]) :
       AsyncSettle(i, out) =>
         /\ IsAbortError(out) => aState' = aState
         /\ (~out.ok /\ ~IsAbortError(out) /\ aReqs[i].latest /\ ~aReqs[i].orphan) =>
              /\ aState'.status = "error"
              /\ aState'.data = Null
              /\ instanceofError(aState'.error[1])
              /\ instanceofError(out.error) => aState'.error[1] = out.error
              /\ ~instanceofError(out.error) =>
                   aState'.error[1].message = "Unknown error"]_vars

\* A thrown string became the Error "Unknown error", after a superseded
\* call of the same hook had settled.
C16_Witness ==
  /\ aMounted
  /\ aState = Failed(UnknownError)
  /\ aBy = "latest"
  /\ aStale

\* C17: the call made by the latest effect run of a mounted hook is never
\* aborted by the aborts of the calls before it; and with the pages' fns, if
\* from some point on the hook stays mounted with the same deps, then from
\* some point on its state is the result of the call made for those deps.
C17_LeavesLoading ==
  /\ [](aMounted =>
          \A i \in 1..Len(aReqs) :
            (aReqs[i].latest /\ ~aReqs[i].orphan) => ~aReqs[i].aborted)
  /\ \A fn \in PageFns : \A d \in DepsOf(fn) :
       <>[](aFn = fn /\ aMounted /\ aDeps = d)
         => <>[](aFn = fn /\ aState = Success(ResultFor(fn, d)) /\ aReqs = <<>>)

\* The hook has the result of its latest call, a superseded call having
\* settled before, and nothing is in flight any more.
C17_Witness ==
  /\ aFn = "fetchJobs" /\ aMounted
  /\ aDeps = <<<<"u", "i">>, "mid">>
  /\ aState = Success(ResultFor(aFn, aDeps))
  /\ aBy = "latest"
  /\ aStale
  /\ aReqs = <<>>

\* C18: a card's Save button and the Saved filter button start no fetch,
\* abort no call in flight and leave the state of useAsync as it is, and the
\* render they cause finds the deps of useAsync as before; a fetch is started
\* (after the first) only for a q or level other than the last fetch's.
C18_SavingStartsNoFetch ==
  /\ [][(ClickSaved \/ \E id \in ToggleIds : ToggleSavedList(id)) =>
          /\ UNCHANGED asyncVars
          /\ areHookInputsEqual(aDeps, listDeps(url'))
               = areHookInputsEqual(aDeps, listDeps(url))]_vars
  /\ [][(ListMounted /\ NewCall /= Null) =>
          /\ NewCall[1].arg = <<qOf(url), levelOf(url)>>
          /\ NewCall[1].arg /= <<aDeps[1], aDeps[2]>>]_vars

\* With a request in flight for the search typed, the Saved filter is on
\* and a job is saved.
C18_Witness ==
  /\ ListMounted
  /\ savedOnlyOf(url)
  /\ qOf(url) = <<"u">>
  /\ saved[1] /= EmptyObject
  /\ aState = Loading
  /\ Len(aReqs) = 1
  /\ ~aReqs[1].aborted
  /\ areHookInputsEqual(aDeps, listDeps(url))

\* C19: the text of the search input changes only by a keystroke (the
\* location's q changes only by the page's own writes here): no write of q
\* by the page, whatever white space the input holds, changes the input.
C19_InputChangesOnlyByTyping ==
  [][(page[1] = "list" /\ page'[1] = "list" /\ qInput' /= qInput) =>
       \E v \in TypedTexts : Type(v)]_vars

\* C20: every write of the location changes only the parameter it is for,
\* relative to the location as it is when the write is applied: a level click
\* sets level and removes saved and keeps the rest, the Saved button changes
\* only saved, and the debounced write changes only q.
C20_UpdatesDoNotClobber ==
  /\ [][\A value \in JobLevels \cup {"all"} :
          ClickLevel(value) =>
            url' = updateParam(updateParam(url, "level", value), "saved", "")]_vars
  /\ [][ClickSaved =>
          url' = updateParam(url, "saved", IF savedOnlyOf(url) THEN "" ELSE "1")]_vars
  /\ [][FlushUrlWrite =>
          url' = updateParam(url, "q", trim(pendingWrite[1].value))]_vars

\* C21: the pages' useLocalStorageState absorbs storage failures. A hook whose
\* stored item is missing, empty or unparseable, or whose read throws, starts
\* from initialValue and the page renders; a write that throws changes neither
\* the stored item nor the state in memory; a write that does not throw
\* stores the JSON text of the hook's current value, so that the write effect
\* of the mount replaces an unparseable item by the JSON text of initialValue.
C21_StorageFailuresAbsorbed ==
  /\ [][\A t \in HookTabs : \A p \in HookPages : \A failing \in SUBSET StorageKeys :
          HookMount(t, p, failing) =>
            /\ page'[t] = p
            /\ \A k \in HookKeys(p) :
                 (\/ k \in failing
                  \/ storage[k] = Null
                  \/ storage[k] = Some(EmptyText)
                  \/ storage[k] = Some(GarbageText))
                   => (IF k = "savedJobs" THEN saved'[t] ELSE notes'[t]) = EmptyObject]_vars
  /\ [][\A t \in HookTabs : \A failing \in SUBSET StorageKeys :
          HookFlush(t, failing) =>
            /\ page' = page /\ saved' = saved /\ notes' = notes
            /\ \A k \in StorageKeys :
                 storage'[k] =
                   IF k \in dirty[t] \ failing
                   THEN Some(stringify(HookValue(t, k)))
                   ELSE storage[k]
            /\ \A k \in dirty[t] \ failing :
                 (storage[k] = Some(GarbageText) /\ HookValue(t, k) = EmptyObject)
                   => storage'[k] = Some(stringify(EmptyObject))]_vars

\* Tab 1's detail page has run its mount effects on a device that held an
\* unparseable jobNotes item: the notes started from the initial value, the
\* write of jobNotes threw and left both the item and the state as they were,
\* and the write of savedJobs stored the JSON text of the saved map.
C21_Witness ==
  /\ page[1] = "detail" /\ page[2] = "none"
  /\ Clean(1)
  /\ lastWriter = 1
  /\ notes[1] = EmptyObject
  /\ storage["jobNotes"] = Some(GarbageText)
  /\ storage["savedJobs"] = Some(stringify(saved[1]))

====
